---- MODULE Spec2Model ----
(***************************************************************************)
(* A model of audio_alert-backend/server.py: the Flask inference service   *)
(* with its startup model loading, the /health route and the /predict      *)
(* pipeline (validate, save upload, ffmpeg transcode, VGGish embedding,    *)
(* classifier, response, temp-file cleanup).                               *)
(*                                                                         *)
(* Python's 0-based indexes are 1-based here (sequences start at 1).       *)
(* The file system is a partial map from path to the file's provenance.    *)
(***************************************************************************)
EXTENDS Integers, Sequences, FiniteSets, TLC

\* ------------------------------------------------------------------ bounds

\* Request threads the hosting server runs at once (Flask's threaded server
\* has no limit; the model needs one).
MaxThreads == 2

\* Largest number of VGGish time frames an inference yields in the model.
MaxFrames == 1

Threads == 1..MaxThreads

\* --------------------------------------------------------------- constants

EMBEDDING_SIZE == 128

LABELS == <<"baby_cry", "boiling_water", "door_knock", "cat_meow", "background", "dog_bark">>

NUM_CLASSES == Len(LABELS)

\* Output widths of the classifier artifact found at MODEL_PATH: the code
\* never compares the width with the label list, so any artifact may load.
Widths == {NUM_CLASSES - 1, NUM_CLASSES, NUM_CLASSES + 1}

NoPath == "None"

VARIABLES
    proc,                 \* where the process is: startup, serving, crashed
    GLOBAL_VGGISH_MODEL,  \* module global, line 39
    classifier_model,     \* module global, line 44
    CLASS_NAMES,          \* module global (a mutable Python list), line 17
    loads,                \* how many times each model was loaded
    disk,                 \* path -> file, for the paths that exist
    req                   \* thread -> the request it is handling

vars == <<proc, GLOBAL_VGGISH_MODEL, classifier_model, CLASS_NAMES, loads, disk, req>>

models == <<GLOBAL_VGGISH_MODEL, classifier_model, CLASS_NAMES, loads>>

\* ------------------------------------------------------------- file system

\* os.path.exists(p)
exists(p) == p \in DOMAIN disk

\* Writing (creating or overwriting) the file at p.
Put(d, p, f) == [q \in (DOMAIN d) \cup {p} |-> IF q = p THEN f ELSE d[q]]

\* os.remove(p), when it succeeds.
Del(d, p) == [q \in (DOMAIN d) \ {p} |-> d[q]]

\* A file's provenance: the thread whose request wrote it and the thread
\* whose upload its content comes from.
File(t, u) == [by |-> t, src |-> u]

\* The provenance of what a request that has since returned left behind: no
\* thread's current request.
Stale == File(0, 0)

\* ------------------------------------------------------------ JSON bodies

NoResponse ==
    [status |-> 0, keys |-> {}, error |-> "", details |-> "", health |-> "",
     predicted_class |-> "", probabilities |-> <<>>,
     probabilities_dict |-> [l \in {} |-> 0]]

ErrorResponse(code, msg) ==
    [NoResponse EXCEPT !.status = code, !.keys = {"error"}, !.error = msg]

InternalError(e) ==
    [NoResponse EXCEPT !.status = 500, !.keys = {"error", "details"},
                       !.error = "Internal server error", !.details = e]

ConversionError ==
    ErrorResponse(500, "Failed to convert audio with ffmpeg. Ensure ffmpeg is installed and accessible from PATH.")

ExtractionError ==
    ErrorResponse(500, "Feature extraction failed even after ffmpeg conversion.")

HealthResponse ==
    [NoResponse EXCEPT !.status = 200, !.keys = {"status"}, !.health = "ok"]

\* --------------------------------------------------------------- requests

NoFeatures == [kind |-> "unset", shape |-> 0]

IdleReq ==
    [pc |-> "idle", route |-> "", form |-> "",
     temp_webm_path |-> NoPath, temp_wav_path |-> NoPath,
     ok |-> "unset", features |-> NoFeatures, response |-> NoResponse,
     \* history of the request, never read by the code
     trace |-> <<>>, raised |-> "", ffmpeg |-> "", frames |-> -1, rm_failed |-> {}]

Forms == {"no_audio_file", "empty_filename", "valid"}

Init ==
    /\ proc = "load_vggish"
    /\ GLOBAL_VGGISH_MODEL = "unset"
    /\ classifier_model = [loaded |-> FALSE, width |-> 0]
    /\ CLASS_NAMES = LABELS
    /\ loads = [vggish |-> 0, classifier |-> 0]
    /\ disk = [p \in {} |-> File(1, 1)]
    /\ req = [t \in Threads |-> IdleReq]

\* ---------------------------------------------------------------- startup

\* Line 39: hub.load at import time; an exception ends the process.
LoadVggish ==
    /\ proc = "load_vggish"
    /\ \/ /\ GLOBAL_VGGISH_MODEL' = "vggish"
          /\ loads' = [loads EXCEPT !.vggish = @ + 1]
          /\ proc' = "load_classifier"
       \/ /\ proc' = "crashed"
          /\ UNCHANGED <<GLOBAL_VGGISH_MODEL, loads>>
    /\ UNCHANGED <<classifier_model, CLASS_NAMES, disk, req>>

\* load_model inside a try block that logs the failure and goes on.
LoadClassifierLenient ==
    /\ proc = "load_classifier"
    /\ \/ /\ \E w \in Widths : classifier_model' = [loaded |-> TRUE, width |-> w]
          /\ loads' = [loads EXCEPT !.classifier = @ + 1]
       \/ UNCHANGED <<classifier_model, loads>>
    /\ proc' = "serving"
    /\ UNCHANGED <<GLOBAL_VGGISH_MODEL, CLASS_NAMES, disk, req>>

\* Line 44: load_model at import time; an exception ends the process.
LoadClassifier ==
    /\ proc = "load_classifier"
    /\ \/ /\ \E w \in Widths : classifier_model' = [loaded |-> TRUE, width |-> w]
          /\ loads' = [loads EXCEPT !.classifier = @ + 1]
          /\ proc' = "serving"
       \/ /\ proc' = "crashed"
          /\ UNCHANGED <<classifier_model, loads>>
    /\ UNCHANGED <<GLOBAL_VGGISH_MODEL, CLASS_NAMES, disk, req>>

\* ----------------------------------------------------------------- routes

\* The server hands a request to a free thread.  predict_audio starts with
\* both temp paths None (lines 134-135).
Receive(t) ==
    /\ proc = "serving"
    /\ req[t].pc = "idle"
    /\ \/ req' = [req EXCEPT ![t] = [IdleReq EXCEPT !.pc = "health", !.route = "/health"]]
       \/ \E f \in Forms :
            req' = [req EXCEPT ![t] =
                      [IdleReq EXCEPT !.pc = "validate", !.route = "/predict", !.form = f]]
    /\ UNCHANGED <<proc, models, disk>>

\* A health route that reports whether the pipeline is free.
health_readiness(t) ==
    /\ req[t].pc = "health"
    /\ req' = [req EXCEPT ![t].response =
                  IF DOMAIN disk = {} THEN HealthResponse
                  ELSE [HealthResponse EXCEPT !.status = 503, !.health = "busy"],
                         ![t].pc = "returned"]
    /\ UNCHANGED <<proc, models, disk>>

\* Lines 127-129.
health(t) ==
    /\ req[t].pc = "health"
    /\ req' = [req EXCEPT ![t].response = HealthResponse, ![t].pc = "returned"]
    /\ UNCHANGED <<proc, models, disk>>

\* Leaving the try block with a response: `return jsonify(...)` evaluates the
\* response, then the finally block (lines 194-201) runs.
Respond(r, resp) ==
    [r EXCEPT !.response = resp, !.trace = Append(@, "respond"), !.pc = "cleanup_webm"]

\* The exception handler answering without the exception's text.
ExceptWithoutDetails(r, e) ==
    Respond([r EXCEPT !.raised = e], ErrorResponse(500, "Internal server error"))

\* Lines 187-193: the handler of any exception raised inside the try block.
Except(r, e) == Respond([r EXCEPT !.raised = e], InternalError(e))

\* Validate with the temp paths assigned before the two validations.
ValidatePathsFirst(t) ==
    /\ req[t].pc = "validate"
    /\ LET r == [req[t] EXCEPT !.trace = Append(@, "receive"),
                               !.temp_webm_path = "temp_audio.webm",
                               !.temp_wav_path = "temp_audio.wav"] IN
       req' = [req EXCEPT ![t] =
                CASE r.form = "no_audio_file" ->
                       Respond(r, ErrorResponse(400, "No audio_file part in the request"))
                  [] r.form = "empty_filename" ->
                       Respond(r, ErrorResponse(400, "No selected file"))
                  [] OTHER -> [r EXCEPT !.pc = "save"]]
    /\ UNCHANGED <<proc, models, disk>>

\* Validate with temp paths of the request's own.
ValidateOwnPaths(t) ==
    /\ req[t].pc = "validate"
    /\ LET r == [req[t] EXCEPT !.trace = Append(@, "receive")] IN
       req' = [req EXCEPT ![t] =
                CASE r.form = "no_audio_file" ->
                       Respond(r, ErrorResponse(400, "No audio_file part in the request"))
                  [] r.form = "empty_filename" ->
                       Respond(r, ErrorResponse(400, "No selected file"))
                  [] OTHER ->
                       [r EXCEPT !.temp_webm_path = "temp_audio_" \o ToString(t) \o ".webm",
                                 !.temp_wav_path = "temp_audio_" \o ToString(t) \o ".wav",
                                 !.pc = "save"]]
    /\ UNCHANGED <<proc, models, disk>>

\* Lines 138-147: the two validations, then the fixed temp paths.
Validate(t) ==
    /\ req[t].pc = "validate"
    /\ LET r == [req[t] EXCEPT !.trace = Append(@, "receive")] IN
       req' = [req EXCEPT ![t] =
                CASE r.form = "no_audio_file" ->
                       Respond(r, ErrorResponse(400, "No audio_file part in the request"))
                  [] r.form = "empty_filename" ->
                       Respond(r, ErrorResponse(400, "No selected file"))
                  [] OTHER ->
                       [r EXCEPT !.temp_webm_path = "temp_audio.webm",
                                 !.temp_wav_path = "temp_audio.wav",
                                 !.pc = "save"]]
    /\ UNCHANGED <<proc, models, disk>>

\* Line 149: audio_file.save(temp_webm_path).  It writes the upload, or raises
\* (disk full, no permission) having created the file or not.
Save(t) ==
    /\ req[t].pc = "save"
    /\ LET r == [req[t] EXCEPT !.trace = Append(@, "persist")]
           written == Put(disk, r.temp_webm_path, File(t, t)) IN
       \/ /\ disk' = written
          /\ req' = [req EXCEPT ![t] = [r EXCEPT !.pc = "transcode"]]
       \/ /\ disk' \in {disk, written}
          /\ req' = [req EXCEPT ![t] = Except(r, "save failed")]
    /\ UNCHANGED <<proc, models>>

\* convert_webm_to_wav catching only a non-zero exit: a missing ffmpeg or
\* another exception of subprocess.run reaches the handler of line 187.
ConversionFailedUncaught(r, how) ==
    IF how = "exit 1"
    THEN Respond([r EXCEPT !.ok = "False", !.ffmpeg = how], ConversionError)
    ELSE Except([r EXCEPT !.ffmpeg = how], how)

\* A failed conversion tried again instead of answered.
ConversionFailedRetry(r, how) ==
    [r EXCEPT !.ok = "False", !.ffmpeg = how, !.pc = "transcode"]

\* Lines 72-75 and 79-84, then 154-158: every failure of the ffmpeg call
\* (how: its exit code or the exception of subprocess.run) makes
\* convert_webm_to_wav return False, which the handler answers with 500.
ConversionFailed(r, how) ==
    Respond([r EXCEPT !.ok = "False", !.ffmpeg = how], ConversionError)

\* subprocess.run given a timeout: a transcode that does not exit in time is
\* abandoned and answered as a failed conversion.
StartTranscodeTimeout(t) ==
    /\ req[t].pc \in {"transcode", "ffmpeg_running"}
    /\ LET r == [req[t] EXCEPT !.trace = Append(@, "transcode")] IN
       \/ /\ req[t].pc = "transcode"
          /\ req' = [req EXCEPT ![t] = [r EXCEPT !.pc = "ffmpeg_running", !.ffmpeg = "running"]]
       \/ /\ req[t].pc = "transcode"
          /\ \E e \in {"FileNotFoundError", "Exception"} :
               req' = [req EXCEPT ![t] = ConversionFailed(r, e)]
       \/ /\ req[t].pc = "ffmpeg_running"
          /\ req' = [req EXCEPT ![t] = ConversionFailed(req[t], "TimeoutExpired")]
    /\ UNCHANGED <<proc, models, disk>>

\* Lines 153, 56-71 and 79-84: convert_webm_to_wav calls subprocess.run, which
\* starts ffmpeg and blocks until it exits, or raises FileNotFoundError (no
\* ffmpeg) or another exception.
StartTranscode(t) ==
    /\ req[t].pc = "transcode"
    /\ LET r == [req[t] EXCEPT !.trace = Append(@, "transcode")] IN
       \/ req' = [req EXCEPT ![t] = [r EXCEPT !.pc = "ffmpeg_running", !.ffmpeg = "running"]]
       \/ \E e \in {"FileNotFoundError", "Exception"} :
            req' = [req EXCEPT ![t] = ConversionFailed(r, e)]
    /\ UNCHANGED <<proc, models, disk>>

\* A conversion that is skipped when a file already exists at wav_path: the
\* existing file is taken for the output.
FfmpegExitCached(t) ==
    /\ req[t].pc = "ffmpeg_running"
    /\ LET r == req[t] IN
       \/ /\ exists(r.temp_wav_path)
          /\ UNCHANGED disk
          /\ req' = [req EXCEPT ![t] =
                       [r EXCEPT !.ok = "True", !.ffmpeg = "exit 0", !.pc = "extract"]]
       \/ /\ ~exists(r.temp_wav_path)
          /\ exists(r.temp_webm_path)
          /\ disk' = Put(disk, r.temp_wav_path, File(t, disk[r.temp_webm_path].src))
          /\ req' = [req EXCEPT ![t] =
                       [r EXCEPT !.ok = "True", !.ffmpeg = "exit 0", !.pc = "extract"]]
       \/ /\ disk' \in {disk, Put(disk, r.temp_wav_path, File(t, t))}
          /\ req' = [req EXCEPT ![t] = ConversionFailed(r, "exit 1")]
    /\ UNCHANGED <<proc, models>>

\* Lines 72-78: ffmpeg exits.  With exit code 0 it has read the file at
\* webm_path and written wav_path (-y overwrites); with another exit code
\* (always so when the input is missing) it may have left an output file.
\* Nothing makes ffmpeg exit: the call has no timeout.
FfmpegExit(t) ==
    /\ req[t].pc = "ffmpeg_running"
    /\ LET r == req[t] IN
       \/ /\ exists(r.temp_webm_path)
          /\ disk' = Put(disk, r.temp_wav_path, File(t, disk[r.temp_webm_path].src))
          /\ req' = [req EXCEPT ![t] =
                       [r EXCEPT !.ok = "True", !.ffmpeg = "exit 0", !.pc = "extract"]]
       \/ /\ disk' \in {disk, Put(disk, r.temp_wav_path, File(t, t))}
          /\ req' = [req EXCEPT ![t] = ConversionFailed(r, "exit 1")]
    /\ UNCHANGED <<proc, models>>

\* The pooling without the guard of line 112: the mean of no frames is NaN.
PoolEmbeddingsUnguarded(T) ==
    IF T > 0 THEN [kind |-> "mean", shape |-> EMBEDDING_SIZE]
             ELSE [kind |-> "nan", shape |-> EMBEDDING_SIZE]

\* Lines 112-117: the mean over T time frames, or zeros when T = 0.
PoolEmbeddings(T) ==
    IF T > 0 THEN [kind |-> "mean", shape |-> EMBEDDING_SIZE]
             ELSE [kind |-> "zeros", shape |-> EMBEDDING_SIZE]

\* Lines 119-121, then 162-165: load_and_extract_feature returns None and the
\* handler answers with 500.
ExtractionFailed(r) ==
    Respond([r EXCEPT !.features = [kind |-> "None", shape |-> 0]], ExtractionError)

\* Lines 161 and 95-117: load_and_extract_feature(temp_wav_path).  librosa
\* reads the file at the path (raising when it is missing), VGGish yields T
\* frames (or raises); any exception gives None.
Extract(t) ==
    /\ req[t].pc = "extract"
    /\ LET r == [req[t] EXCEPT !.trace = Append(@, "extract")] IN
       \/ /\ exists(r.temp_wav_path)
          /\ \E T \in 0..MaxFrames :
               req' = [req EXCEPT ![t] =
                         [r EXCEPT !.features = PoolEmbeddings(T), !.frames = T,
                                   !.pc = "classify"]]
       \/ req' = [req EXCEPT ![t] = ExtractionFailed(r)]
    /\ UNCHANGED <<proc, models, disk>>

\* np.argmax: the first index of the largest entry.
RECURSIVE ArgmaxFrom(_, _, _)
ArgmaxFrom(probs, i, best) ==
    IF i > Len(probs) THEN best
    ELSE ArgmaxFrom(probs, i + 1, IF probs[i] > probs[best] THEN i ELSE best)

\* argmax returning the last index of the largest entry.
RECURSIVE ArgmaxLastFrom(_, _, _)
ArgmaxLastFrom(probs, i, best) ==
    IF i > Len(probs) THEN best
    ELSE ArgmaxLastFrom(probs, i + 1, IF probs[i] >= probs[best] THEN i ELSE best)

argmax_last(probs) == ArgmaxLastFrom(probs, 2, 1)

argmax(probs) == ArgmaxFrom(probs, 2, 1)

\* Lines 177-179: the dict comprehension over range(len(CLASS_NAMES)).
RECURSIVE prob_dict(_, _, _)
prob_dict(names, probs, n) ==
    IF n = 0 THEN [l \in {} |-> 0]
    ELSE Put(prob_dict(names, probs, n - 1), names[n], probs[n])

\* Lines 181-185.
PredictionResponse(names, probs) ==
    [NoResponse EXCEPT !.status = 200,
                       !.keys = {"predicted_class", "probabilities", "probabilities_dict"},
                       !.predicted_class = names[argmax(probs)],
                       !.probabilities = probs,
                       !.probabilities_dict = prob_dict(names, probs, Len(names))]

\* A label lookup that clamps an index beyond the label list to the last
\* label instead of raising IndexError.
ClassifiedClamped(r, names, probs) ==
    IF \E i \in 1..Len(names) : i > Len(probs) THEN Except(r, "index out of bounds")
    ELSE Respond(r, [NoResponse EXCEPT
                       !.status = 200,
                       !.keys = {"predicted_class", "probabilities", "probabilities_dict"},
                       !.predicted_class =
                           names[IF argmax(probs) > Len(names) THEN Len(names)
                                 ELSE argmax(probs)],
                       !.probabilities = probs,
                       !.probabilities_dict = prob_dict(names, probs, Len(names))])

\* Lines 172-185 on the classifier's output row: CLASS_NAMES[index] and
\* probs[i] raise IndexError out of range.
Classified(r, names, probs) ==
    IF argmax(probs) > Len(names) THEN Except(r, "list index out of range")
    ELSE IF \E i \in 1..Len(names) : i > Len(probs) THEN Except(r, "index out of bounds")
    ELSE Respond(r, PredictionResponse(names, probs))

\* The rows classifier_model.predict may return, for a model of width w: a
\* single peak at any index, or all entries equal.
OneHot(w, k) == [i \in 1..w |-> IF i = k THEN 1 ELSE 0]

ProbVectors(w) == {OneHot(w, k) : k \in 1..w} \cup {[i \in 1..w |-> 1]}

\* Lines 168-185: predict on the batched features (it may raise), then the
\* response built from its first row.
Classify(t) ==
    /\ req[t].pc = "classify"
    /\ LET r == [req[t] EXCEPT !.trace = Append(@, "classify")] IN
       \/ \E probs \in ProbVectors(classifier_model.width) :
            req' = [req EXCEPT ![t] = Classified(r, CLASS_NAMES, probs)]
       \/ req' = [req EXCEPT ![t] = Except(r, "predict failed")]
    /\ UNCHANGED <<proc, models, disk>>

\* Remove run only after a 200 response: cleanup at the end of the try block
\* instead of in a finally block.
RemoveOnSuccess(t, p, r) ==
    \/ /\ r.response.status = 200 /\ p # NoPath /\ exists(p)
       /\ \/ /\ disk' = Del(disk, p)
             /\ req' = [req EXCEPT ![t] = r]
          \/ /\ disk' = disk
             /\ req' = [req EXCEPT ![t] = [r EXCEPT !.rm_failed = @ \cup {p}]]
    \/ /\ ~(r.response.status = 200 /\ p # NoPath /\ exists(p))
       /\ disk' = disk
       /\ req' = [req EXCEPT ![t] = r]

\* Lines 196-201, one turn of the loop for path p, after which the request is
\* r: the file is removed when the path is set and exists; an OSError from
\* os.remove is swallowed and the file stays.  exists and remove are one
\* step: a file another request removes or writes in between leaves the same
\* disk as this step taken after it.
Remove(t, p, r) ==
    \/ /\ p # NoPath /\ exists(p)
       /\ \/ /\ disk' = Del(disk, p)
             /\ req' = [req EXCEPT ![t] = r]
          \/ /\ disk' = disk
             /\ req' = [req EXCEPT ![t] = [r EXCEPT !.rm_failed = @ \cup {p}]]
    \/ /\ ~(p # NoPath /\ exists(p))
       /\ disk' = disk
       /\ req' = [req EXCEPT ![t] = r]

\* The finally block with a loop over the webm path alone.
CleanupWebmOnly(t) ==
    /\ \/ /\ req[t].pc = "cleanup_webm"
          /\ Remove(t, req[t].temp_webm_path,
                    [req[t] EXCEPT !.trace = Append(@, "cleanup"), !.pc = "cleanup_wav"])
       \/ /\ req[t].pc = "cleanup_wav"
          /\ Remove(t, NoPath, [req[t] EXCEPT !.pc = "returned"])
    /\ UNCHANGED <<proc, models>>

\* Lines 194-201: the finally block, first the webm path, then the wav path.
Cleanup(t) ==
    /\ \/ /\ req[t].pc = "cleanup_webm"
          /\ Remove(t, req[t].temp_webm_path,
                    [req[t] EXCEPT !.trace = Append(@, "cleanup"), !.pc = "cleanup_wav"])
       \/ /\ req[t].pc = "cleanup_wav"
          /\ Remove(t, req[t].temp_wav_path, [req[t] EXCEPT !.pc = "returned"])
    /\ UNCHANGED <<proc, models>>

\* The view function has returned: the server sends the response and the
\* thread is free again.  Files the request left behind are from then on
\* files of an earlier request.
Send(t) ==
    /\ req[t].pc = "returned"
    /\ req' = [req EXCEPT ![t] = IdleReq]
    /\ disk' = [p \in DOMAIN disk |->
                  [by  |-> IF disk[p].by = t THEN Stale.by ELSE disk[p].by,
                   src |-> IF disk[p].src = t THEN Stale.src ELSE disk[p].src]]
    /\ UNCHANGED <<proc, models>>

Next ==
    \/ LoadVggish
    \/ LoadClassifier
    \/ \E t \in Threads : Receive(t)
    \/ \E t \in Threads : health(t)
    \/ \E t \in Threads : Validate(t)
    \/ \E t \in Threads : Save(t)
    \/ \E t \in Threads : StartTranscode(t)
    \/ \E t \in Threads : FfmpegExit(t)
    \/ \E t \in Threads : Extract(t)
    \/ \E t \in Threads : Classify(t)
    \/ \E t \in Threads : Cleanup(t)
    \/ \E t \in Threads : Send(t)

Spec == Init /\ [][Next]_vars

\* The server handing over a request only when no view function is running:
\* one client that waits for each response, or app.run(threaded=False).
ReceiveSerial(t) ==
    /\ \A u \in Threads \ {t} : req[u].pc \in {"idle", "returned"}
    /\ Receive(t)

NextSerial ==
    \/ LoadVggish
    \/ LoadClassifier
    \/ \E t \in Threads : ReceiveSerial(t)
    \/ \E t \in Threads : health(t)
    \/ \E t \in Threads : Validate(t)
    \/ \E t \in Threads : Save(t)
    \/ \E t \in Threads : StartTranscode(t)
    \/ \E t \in Threads : FfmpegExit(t)
    \/ \E t \in Threads : Extract(t)
    \/ \E t \in Threads : Classify(t)
    \/ \E t \in Threads : Cleanup(t)
    \/ \E t \in Threads : Send(t)

\* The service with its requests run one at a time.
SpecSerial == Init /\ [][NextSerial]_vars

\* ----------------------------------------------------------------- claims

Predict(t) == req[t].route = "/predict"

Completed(t) == Predict(t) /\ req[t].pc = "returned"

LabelSet(names) == {names[i] : i \in 1..Len(names)}

\* C1, as stated: once a POST /predict request has completed, no temp file
\* it created (temp_audio.webm, temp_audio.wav) exists on disk, whatever its
\* outcome.
C1_NoTempFileAfterRequest ==
    \A t \in Threads :
        Completed(t) => \A p \in DOMAIN disk : disk[p].by # t

\* C1, amended: once a POST /predict request has completed, a temp file it
\* created exists on disk only if the os.remove its cleanup called on that
\* path raised OSError (which the cleanup swallows).
C1_NoTempFileUnlessRemoveFailed ==
    \A t \in Threads :
        Completed(t) => \A p \in DOMAIN disk : disk[p].by = t => p \in req[t].rm_failed

\* A request that saved and transcoded its upload, answered 200, and whose
\* cleanup removed both files.
C1_Witness ==
    \E t \in Threads :
        /\ Completed(t)
        /\ req[t].response.status = 200
        /\ req[t].rm_failed = {}
        /\ DOMAIN disk = {}

\* C2: every 200 response of POST /predict from a classifier as wide as the
\* label set names the label at the (first) index of the largest probability,
\* lists exactly one probability per label, has exactly the labels as the
\* keys of probabilities_dict, and the dict agrees with the list index for
\* index.
C2_ResponseShape ==
    \A t \in Threads :
        (/\ Predict(t)
         /\ req[t].response.status = 200
         /\ classifier_model.width = Len(CLASS_NAMES))
        => LET b == req[t].response
               p == b.probabilities IN
           /\ Len(p) = Len(CLASS_NAMES)
           /\ \E i \in 1..Len(p) :
                 /\ \A j \in 1..Len(p) : p[j] <= p[i]
                 /\ \A j \in 1..(i - 1) : p[j] < p[i]
                 /\ b.predicted_class = CLASS_NAMES[i]
           /\ DOMAIN b.probabilities_dict = LabelSet(CLASS_NAMES)
           /\ \A i \in 1..Len(CLASS_NAMES) : b.probabilities_dict[CLASS_NAMES[i]] = p[i]

\* A 200 response of a six-wide classifier whose largest probability is the
\* last label's.
C2_Witness ==
    \E t \in Threads :
        /\ Completed(t)
        /\ req[t].response.status = 200
        /\ classifier_model.width = Len(CLASS_NAMES)
        /\ req[t].response.predicted_class = "dog_bark"
        /\ req[t].response.probabilities[Len(CLASS_NAMES)] = 1

Rejected(r) == r.route = "/predict" /\ r.form \in {"no_audio_file", "empty_filename"}

RejectedWithoutEffect(r) ==
    r.pc # "validate" =>
        /\ r.response.status = 400
        /\ "error" \in r.response.keys /\ r.response.error # ""
        /\ r.temp_webm_path = NoPath /\ r.temp_wav_path = NoPath
        /\ r.ok = "unset" /\ r.features = NoFeatures
        /\ \A i \in 1..Len(r.trace) : r.trace[i] \in {"receive", "respond", "cleanup"}

\* C3: a POST /predict request with no audio_file field or an empty filename
\* is answered 400 with an error field; none of its steps (its cleanup
\* included) writes or removes a file, and the save, the transcoder, the
\* extractor and the classifier are not invoked for it.
C3_RejectedBeforeSideEffects ==
    [][\A t \in Threads :
          (Rejected(req'[t]) /\ req'[t] # req[t])
          => (RejectedWithoutEffect(req'[t]) /\ disk' = disk)]_vars

\* A rejected request has run its cleanup while both temp files were on disk.
C3_Witness ==
    \E t \in Threads :
        /\ Rejected(req[t])
        /\ req[t].pc = "returned"
        /\ DOMAIN disk = {"temp_audio.webm", "temp_audio.wav"}

Invoked(r, stage) == \E i \in 1..Len(r.trace) : r.trace[i] = stage

\* C4: whenever the ffmpeg invocation has failed (a non-zero exit code,
\* FileNotFoundError, or another exception of subprocess.run),
\* convert_webm_to_wav has returned False and the request is answered 500
\* with an "error" key holding the conversion-failure message; the extractor
\* and the classifier are not invoked for the request.
C4_TranscodeFailureIs500 ==
    \A t \in Threads :
        req[t].ffmpeg \in {"exit 1", "FileNotFoundError", "Exception"}
        => /\ req[t].ok = "False"
           /\ req[t].response.status = 500
           /\ req[t].response.keys = {"error"}
           /\ req[t].response.error =
                "Failed to convert audio with ffmpeg. Ensure ffmpeg is installed and accessible from PATH."
           /\ ~Invoked(req[t], "extract") /\ ~Invoked(req[t], "classify")
           /\ req[t].features = NoFeatures
           /\ req[t].pc \in {"cleanup_webm", "cleanup_wav", "returned"}

\* A request completed after subprocess.run raised FileNotFoundError.
C4_Witness ==
    \E t \in Threads : Completed(t) /\ req[t].ffmpeg = "FileNotFoundError"

WellFormed200(b) ==
    /\ b.status = 200
    /\ b.keys = {"predicted_class", "probabilities", "probabilities_dict"}
    /\ b.predicted_class \in LabelSet(CLASS_NAMES)
    /\ DOMAIN b.probabilities_dict = LabelSet(CLASS_NAMES)
    /\ Len(b.probabilities) >= Len(CLASS_NAMES)

ExtractorOutcomes(r) ==
    /\ r.frames = 0 => r.features = [kind |-> "zeros", shape |-> EMBEDDING_SIZE]
    /\ (r.frames = 0 /\ r.pc # "classify") => Invoked(r, "classify")
    /\ r.features.kind = "None"
       => /\ r.response.status = 500
          /\ r.response.error = "Feature extraction failed even after ffmpeg conversion."
          /\ ~Invoked(r, "classify")

\* C5, as stated: a zero-frame inference gives a zero vector of width 128
\* and the request goes on to classification and ends in a well-formed 200
\* response; an exception in the extractor gives None and the request ends in
\* 500 with the classifier not invoked.
C5_ZeroVectorEndsIn200 ==
    \A t \in Threads :
        /\ ExtractorOutcomes(req[t])
        /\ (Completed(t) /\ req[t].frames = 0) => WellFormed200(req[t].response)

\* C5, amended: as C5, except that the zero-vector request ends in a
\* well-formed 200 response only when classification itself succeeds; when
\* predict raises, or the label lookup or the dict comprehension raises
\* IndexError (a classifier row narrower than the label list, or its argmax
\* beyond it), it ends in the generic 500, the classifier having been invoked.
C5_ZeroVectorIsClassified ==
    \A t \in Threads :
        /\ ExtractorOutcomes(req[t])
        /\ (Completed(t) /\ req[t].frames = 0)
           => IF req[t].raised = ""
              THEN WellFormed200(req[t].response)
              ELSE /\ req[t].raised \in
                        {"predict failed", "list index out of range", "index out of bounds"}
                   /\ req[t].response = InternalError(req[t].raised)

\* A zero-frame request that was classified and answered 200.
C5_Witness ==
    \E t \in Threads :
        /\ Completed(t)
        /\ req[t].frames = 0
        /\ req[t].response.status = 200

\* A step of the request thread t.
Step(t) ==
    \/ health(t) \/ Validate(t) \/ Save(t) \/ StartTranscode(t) \/ FfmpegExit(t)
    \/ Extract(t) \/ Classify(t) \/ Cleanup(t) \/ Send(t)

\* C6: an exception raised in the try block after validation (by the save,
\* by predict, by the label lookup or the dict comprehension) is answered 500
\* with "Internal server error" and the exception's string; the process stays
\* in service whatever a request does: a thread with a request has a next
\* step, and a free thread accepts the next request.
C6_RequestFailureStaysLocal ==
    \A t \in Threads :
        /\ req[t].raised # ""
           => /\ req[t].response.status = 500
              /\ req[t].response.keys = {"error", "details"}
              /\ req[t].response.error = "Internal server error"
              /\ req[t].response.details = req[t].raised
        /\ req[t].pc # "idle" => (proc = "serving" /\ ENABLED Step(t))
        /\ (req[t].pc = "idle" /\ proc = "serving") => ENABLED Receive(t)

\* A request is being handled while a file left by an earlier request, whose
\* cleanup failed, is on disk, and another request has completed with the
\* IndexError of the label lookup.
C6_Witness ==
    \E t, u \in Threads :
        /\ Completed(t) /\ req[t].raised = "list index out of range"
        /\ req[u].pc = "transcode"
        /\ \E p \in DOMAIN disk : disk[p] = Stale

\* C7: the process serves only with both models loaded, each exactly once;
\* a failed load ends the process, which then does nothing; and no step
\* taken while serving changes the models, the label list or the load counts.
C7_ModelsLoadedOnceReadOnly ==
    [][/\ proc' = "serving"
          => /\ GLOBAL_VGGISH_MODEL' = "vggish"
             /\ classifier_model'.loaded
             /\ loads' = [vggish |-> 1, classifier |-> 1]
             /\ CLASS_NAMES' = LABELS
       /\ \A t \in Threads : req'[t].pc # "idle" => proc' = "serving"
       /\ proc = "serving" => (proc' = "serving" /\ UNCHANGED models)
       /\ proc # "crashed"]_vars

\* Requests of both routes have completed, one of them with 500.
C7_Witness ==
    \E t, u \in Threads :
        /\ Completed(t) /\ req[t].response.status = 500
        /\ req[u].pc = "returned" /\ req[u].route = "/health"
        /\ loads = [vggish |-> 1, classifier |-> 1]

\* C8: GET /health is answered 200 with {"status": "ok"} in whatever state
\* the service is, and its step changes neither the disk nor any other
\* request nor the models.
C8_HealthIsFixedAndPure ==
    [][\A t \in Threads :
          /\ req[t].pc = "health" => ENABLED health(t)
          /\ (req[t].pc = "health" /\ req'[t] # req[t])
             => /\ req'[t].pc = "returned"
                /\ req'[t].response.status = 200
                /\ req'[t].response.keys = {"status"}
                /\ req'[t].response.health = "ok"
                /\ disk' = disk /\ proc' = proc /\ UNCHANGED models
                /\ \A u \in Threads \ {t} : req'[u] = req[u]]_vars

\* /health has been answered while a /predict request is between its
\* transcode and its extraction with both temp files on disk.
C8_Witness ==
    \E t, u \in Threads :
        /\ req[t].pc = "returned" /\ req[t].route = "/health"
        /\ req[u].pc = "extract"
        /\ DOMAIN disk = {"temp_audio.webm", "temp_audio.wav"}

\* C9: all requests use the same two temp paths (so one request can remove
\* or overwrite the file another has not consumed yet: C9_Race is reached).
C9_TempPathsAreShared ==
    \A t, u \in Threads :
        (req[t].temp_webm_path # NoPath /\ req[u].temp_webm_path # NoPath)
        => /\ req[t].temp_webm_path = req[u].temp_webm_path
           /\ req[t].temp_wav_path = req[u].temp_wav_path
           /\ req[t].temp_wav_path # NoPath

\* Request b's transcode has succeeded and its extraction has not started,
\* and temp_audio.wav is gone: the cleanup of request a, completed meanwhile,
\* removed it.
C9_Race ==
    \E a, b \in Threads :
        /\ a # b
        /\ Completed(a) /\ req[a].rm_failed = {}
        /\ req[b].pc = "extract" /\ req[b].ok = "True"
        /\ ~exists(req[b].temp_wav_path)

Stages == <<"receive", "persist", "transcode", "extract", "classify">>

\* The stages of a request that got as far as stage k.
Path(k) == SubSeq(Stages, 1, k) \o <<"respond", "cleanup">>

IsPrefix(s, q) == Len(s) <= Len(q) /\ s = SubSeq(q, 1, Len(s))

\* C10: the stages of a POST /predict request are invoked in the order
\* receive, persist, transcode, extract, classify, each at most once and only
\* after the one before succeeded, followed on every exit path by one
\* response and then one cleanup, after which the request is complete.
C10_StagesInOrder ==
    \A t \in Threads :
        Predict(t)
        => LET r == req[t] IN
           /\ \E k \in 1..Len(Stages) : IsPrefix(r.trace, Path(k))
           /\ r.pc = "returned" => \E k \in 1..Len(Stages) : r.trace = Path(k)
           /\ Invoked(r, "cleanup") <=> r.pc \in {"cleanup_wav", "returned"}
           /\ Invoked(r, "persist") => r.form = "valid"
           /\ Invoked(r, "transcode") => r.raised # "save failed"
           /\ Invoked(r, "extract") => r.ok = "True"
           /\ Invoked(r, "classify") => r.features.kind \in {"mean", "zeros"}

\* A request has gone through every stage and completed.
C10_Witness ==
    \E t \in Threads : Completed(t) /\ req[t].trace = Path(Len(Stages))

\* No request is in flight: every thread is free or has returned.
Quiescent == \A t \in Threads : req[t].pc \in {"idle", "returned"}

\* No os.remove of the requests that have returned has failed: none of them
\* records a failure, and no file of an earlier request (which only a failed
\* remove leaves behind) is on disk.
RemovesSucceeded ==
    /\ \A t \in Threads : req[t].rm_failed = {}
    /\ \A p \in DOMAIN disk : disk[p].by # Stale.by

\* C11: whenever all requests, however interleaved, have completed and every
\* os.remove of their cleanups succeeded, neither temp_audio.webm nor
\* temp_audio.wav exists on disk.
C11_QuiescentDiskIsEmpty ==
    (Quiescent /\ RemovesSucceeded) => DOMAIN disk = {}

\* Two requests have completed, both having saved an upload: one answered
\* 200, the other lost its transcoded file before its extraction (its
\* transcode had succeeded, its extraction failed); the disk is empty.
C11_Witness ==
    \E a, b \in Threads :
        /\ a # b
        /\ Completed(a) /\ req[a].response.status = 200
        /\ Completed(b) /\ req[b].ok = "True" /\ req[b].features.kind = "None"
        /\ RemovesSucceeded
        /\ DOMAIN disk = {}

\* The steps of predict_audio that the request thread takes by itself: the
\* thread is scheduled, and the save, the model calls and os.remove return.
Handler(t) ==
    \/ Validate(t) \/ Save(t) \/ StartTranscode(t)
    \/ Extract(t) \/ Classify(t) \/ Cleanup(t)

\* The service with every request thread scheduled again and again.  Nothing
\* is assumed of ffmpeg: subprocess.run (lines 66-71) sets no timeout.
SpecLive == Spec /\ \A t \in Threads : WF_vars(Handler(t))

\* Every ffmpeg subprocess exits.
FfmpegReturns == \A t \in Threads : WF_vars(FfmpegExit(t))

Blocked(t) == req[t].pc = "ffmpeg_running"

Responses(r) == Cardinality({i \in 1..Len(r.trace) : r.trace[i] = "respond"})

\* A request waiting for ffmpeg has not responded and has not started its
\* cleanup.
BlockedIsSilent(t) ==
    Blocked(t) => /\ req[t].response = NoResponse
                  /\ ~Invoked(req[t], "respond") /\ ~Invoked(req[t], "cleanup")

\* C12, as stated, for the request whose ffmpeg has not exited: it has not
\* responded, has not reached its cleanup, and the upload it saved is on disk.
C12_UploadStaysWhileBlocked ==
    \A t \in Threads :
        /\ BlockedIsSilent(t)
        /\ Blocked(t) => (exists(req[t].temp_webm_path)
                          /\ disk[req[t].temp_webm_path].by = t)

\* C12, amended: if every ffmpeg subprocess exits, every POST /predict
\* request produces exactly one response and completes its cleanup; a request
\* whose ffmpeg has not exited has not responded and has not reached its
\* cleanup, only the exit of ffmpeg lets it go on, and no step of its own
\* removes or replaces the upload it saved (a step of another request, at the
\* same fixed path, can).
C12_RespondsUnlessFfmpegHangs ==
    /\ FfmpegReturns
       => \A t \in Threads :
            (Predict(t) /\ req[t].pc = "validate")
            ~> (req[t].pc = "returned" /\ Responses(req[t]) = 1
                /\ req[t].response.status # 0)
    /\ [][\A t \in Threads :
            /\ BlockedIsSilent(t)
            /\ (Blocked(t) /\ req'[t] # req[t])
               => req'[t].ffmpeg \in {"exit 0", "exit 1"}
            /\ (Blocked(t) /\ req'[t] = req[t])
               => \/ UNCHANGED disk
                  \/ \E u \in Threads \ {t} : req'[u] # req[u]]_vars

\* A request waits for ffmpeg with its upload on disk while the other thread
\* has had a whole request answered since.
C12_Witness ==
    \E t, u \in Threads :
        /\ Blocked(t)
        /\ exists(req[t].temp_webm_path) /\ disk[req[t].temp_webm_path].by = t
        /\ req[u].pc = "returned" /\ req[u].response.status = 200

\* The first index of a largest entry of a non-empty row.
FirstMax(p) ==
    CHOOSE i \in 1..Len(p) :
        /\ \A j \in 1..Len(p) : p[j] <= p[i]
        /\ \A j \in 1..(i - 1) : p[j] < p[i]

IsInternalError(b) ==
    b.status = 500 /\ b.keys = {"error", "details"} /\ b.error = "Internal server error"

\* C13: whatever the width of the classifier's output row, every 200
\* response of POST /predict has a predicted_class of the label set, the
\* label at the argmax of the probabilities it returns, and exactly the
\* labels as keys of probabilities_dict; a request classified by a narrower
\* classifier, or with a row whose argmax lies at or beyond the length of the
\* label list, is answered 500 "Internal server error"; a row of a wider
\* classifier with its argmax inside the label list is answered 200 with a
\* probabilities list longer than the label list.
C13_AnyWidthClassifier ==
    \A t \in Threads :
        LET r == req[t]
            b == r.response
            n == Len(CLASS_NAMES)
            w == classifier_model.width IN
        /\ (Predict(t) /\ b.status = 200)
           => /\ b.keys = {"predicted_class", "probabilities", "probabilities_dict"}
              /\ Len(b.probabilities) = w
              /\ FirstMax(b.probabilities) <= n
              /\ b.predicted_class = CLASS_NAMES[FirstMax(b.probabilities)]
              /\ b.predicted_class \in LabelSet(CLASS_NAMES)
              /\ DOMAIN b.probabilities_dict = LabelSet(CLASS_NAMES)
              /\ \A i \in 1..n : b.probabilities_dict[CLASS_NAMES[i]] = b.probabilities[i]
        /\ (Invoked(r, "classify") /\ w < n) => IsInternalError(b)
        /\ r.pc = "classify"
           => \A probs \in ProbVectors(w) :
                LET out == Classified(r, CLASS_NAMES, probs).response IN
                /\ (w < n \/ FirstMax(probs) > n) => IsInternalError(out)
                /\ (w > n /\ FirstMax(probs) <= n)
                   => /\ out.status = 200
                      /\ out.probabilities = probs
                      /\ Len(out.probabilities) > n

\* With a seven-wide classifier, one request is answered 200 with seven
\* probabilities and another, whose row peaks at index seven, is answered 500.
C13_Witness ==
    \E t, u \in Threads :
        /\ classifier_model.width > Len(CLASS_NAMES)
        /\ Completed(t) /\ req[t].response.status = 200
        /\ Len(req[t].response.probabilities) > Len(CLASS_NAMES)
        /\ Completed(u) /\ IsInternalError(req[u].response)
        /\ req[u].raised = "list index out of range"

Running(t) == req[t].pc \notin {"idle", "returned"}

\* C14: when requests run one at a time, a request about to run the extractor
\* finds at temp_audio.wav the file its own ffmpeg wrote with exit code 0
\* from the upload it saved itself, and temp_audio.webm is still that upload,
\* whatever earlier requests left on disk.
C14_SerialExtractorReadsOwnWav ==
    /\ Cardinality({t \in Threads : Running(t)}) <= 1
    /\ \A t \in Threads :
         req[t].pc = "extract"
         => /\ req[t].ok = "True" /\ req[t].ffmpeg = "exit 0"
            /\ exists(req[t].temp_wav_path)
            /\ disk[req[t].temp_wav_path] = File(t, t)
            /\ exists(req[t].temp_webm_path)
            /\ disk[req[t].temp_webm_path] = File(t, t)

\* A request is about to extract from its own wav although the request
\* before it failed to remove both of its temp files.
C14_Witness ==
    \E t, u \in Threads :
        /\ req[t].pc = "extract"
        /\ disk[req[t].temp_wav_path] = File(t, t)
        /\ Completed(u)
        /\ req[u].rm_failed = {"temp_audio.webm", "temp_audio.wav"}
====
